---- MODULE Spec2Model ----
(***************************************************************************)
(* Model of the ESC/POS command encoder of src/escpos/escpos.go.           *)
(*                                                                         *)
(* A Go string is modelled as the sequence of its bytes (0..255), a        *)
(* []byte likewise.  The transport (io.ReadWriter) is modelled by the      *)
(* trace of Write/Read calls the encoder makes on it during one method     *)
(* call.  Every exported method is one action; the methods themselves are  *)
(* operators over a call frame f = [e, io, ret] (receiver fields,          *)
(* transport calls made so far, return value).                             *)
(***************************************************************************)
EXTENDS Integers, Sequences, FiniteSets, TLC

\* ------------------------------------------------------------------------
\* Bounds of the exploration
\* ------------------------------------------------------------------------
\* number of method calls made on one encoder
MaxOps == 2

\* bytes of a chunk that the recorded transport trace keeps (with its length)
MaxShown == 16

\* ------------------------------------------------------------------------
\* Program constants
\* ------------------------------------------------------------------------
DLE == 16
EOT == 4
GS == 29

\* ------------------------------------------------------------------------
\* Bytes, strings, formatting
\* ------------------------------------------------------------------------
\* conversion to uint8 / byte(x): the low eight bits, also of a negative x
byte(x) == x % 256

\* Go's integer / and % (b > 0): the quotient truncates toward zero and the
\* remainder takes the sign of the dividend
quo(a, b) == IF a >= 0 THEN a \div b ELSE -((-a) \div b)

rem(a, b) == a - b * quo(a, b)

\* the replacement rune U+FFFD that utf8.DecodeRune yields on invalid input
RuneError == 65533

InRange(b, lo, hi) == lo <= b /\ b <= hi

\* utf8.EncodeRune, as used by fmt's %c verb: invalid code points (negative,
\* surrogates, above U+10FFFF) are written as U+FFFD
RECURSIVE EncodeRune(_)
EncodeRune(r) ==
    IF r < 0 \/ r > 1114111 \/ InRange(r, 55296, 57343) THEN EncodeRune(RuneError)
    ELSE IF r < 128 THEN <<r>>
    ELSE IF r < 2048 THEN <<192 + (r \div 64), 128 + (r % 64)>>
    ELSE IF r < 65536 THEN
        <<224 + (r \div 4096), 128 + ((r \div 64) % 64), 128 + (r % 64)>>
    ELSE <<240 + (r \div 262144), 128 + ((r \div 4096) % 64),
           128 + ((r \div 64) % 64), 128 + (r % 64)>>

\* fmt's %v of a non-negative int: its decimal digits as ASCII
RECURSIVE Itoa(_)
Itoa(n) == IF n < 10 THEN <<48 + n>> ELSE Itoa(n \div 10) \o <<48 + (n % 10)>>

\* utf8.DecodeRune at position i of s: [r |-> rune, size |-> bytes consumed].
\* Invalid or truncated encodings give (RuneError, 1).
DecodeRune(s, i) ==
    LET b0 == s[i]
        n == Len(s) - i + 1
        cont(k) == InRange(s[i + k], 128, 191)
        bad == [r |-> RuneError, size |-> 1]
    IN  IF b0 < 128 THEN [r |-> b0, size |-> 1]
        ELSE IF InRange(b0, 194, 223) THEN
            IF n >= 2 /\ cont(1)
            THEN [r |-> (b0 - 192) * 64 + (s[i + 1] - 128), size |-> 2]
            ELSE bad
        ELSE IF InRange(b0, 224, 239) THEN
            IF /\ n >= 3
               /\ InRange(s[i + 1], IF b0 = 224 THEN 160 ELSE 128,
                                    IF b0 = 237 THEN 159 ELSE 191)
               /\ cont(2)
            THEN [r |-> (b0 - 224) * 4096 + (s[i + 1] - 128) * 64 + (s[i + 2] - 128),
                  size |-> 3]
            ELSE bad
        ELSE IF InRange(b0, 240, 244) THEN
            IF /\ n >= 4
               /\ InRange(s[i + 1], IF b0 = 240 THEN 144 ELSE 128,
                                    IF b0 = 244 THEN 143 ELSE 191)
               /\ cont(2) /\ cont(3)
            THEN [r |-> (b0 - 240) * 262144 + (s[i + 1] - 128) * 4096
                        + (s[i + 2] - 128) * 64 + (s[i + 3] - 128),
                  size |-> 4]
            ELSE bad
        ELSE bad

\* the two-byte GBK codes of the Latin-1 runes that have one
gbkLatin1 ==
    [r \in {164, 167, 168, 176, 177, 183, 215, 224, 225, 232, 233, 234,
            236, 237, 242, 243, 247, 249, 250, 252} |->
        CASE r = 164 -> <<161, 232>> [] r = 167 -> <<161, 236>>
          [] r = 168 -> <<161, 167>> [] r = 176 -> <<161, 227>>
          [] r = 177 -> <<161, 192>> [] r = 183 -> <<161, 164>>
          [] r = 215 -> <<161, 193>> [] r = 224 -> <<168, 164>>
          [] r = 225 -> <<168, 162>> [] r = 232 -> <<168, 168>>
          [] r = 233 -> <<168, 166>> [] r = 234 -> <<168, 186>>
          [] r = 236 -> <<168, 172>> [] r = 237 -> <<168, 170>>
          [] r = 242 -> <<168, 176>> [] r = 243 -> <<168, 174>>
          [] r = 247 -> <<161, 194>> [] r = 249 -> <<168, 180>>
          [] r = 250 -> <<168, 178>> [] r = 252 -> <<168, 185>>]

\* the four-byte GB18030 form of a linear index
gb18030FourByte(x) ==
    <<129 + (x \div 12600), 48 + ((x \div 1260) % 10),
      129 + ((x \div 10) % 126), 48 + (x % 10)>>

\* linear index of a BMP rune without a two-byte code: the rune minus the
\* offset of its range.  Only the ranges the bounded inputs reach are listed
\* (U+0080..U+00FF and U+FFE6..U+FFFF); a rune outside them is an error here.
gb18030Index(r) ==
    CASE InRange(r, 128, 163) -> r - 128
      [] InRange(r, 165, 166) -> r - 129
      [] InRange(r, 169, 175) -> r - 131
      [] InRange(r, 178, 182) -> r - 133
      [] InRange(r, 184, 214) -> r - 134
      [] InRange(r, 216, 223) -> r - 135
      [] InRange(r, 226, 231) -> r - 137
      [] r = 235 -> 95
      [] InRange(r, 238, 241) -> r - 142
      [] InRange(r, 244, 246) -> r - 144
      [] r = 248 -> 103
      [] r = 251 -> 104
      [] InRange(r, 253, 255) -> r - 148
      [] InRange(r, 65510, 65535) -> r - 26116

\* simplifiedchinese.GB18030.NewEncoder() applied to one rune
gb18030EncodeRune(r) ==
    IF r < 128 THEN <<r>>
    ELSE IF r \in DOMAIN gbkLatin1 THEN gbkLatin1[r]
    ELSE IF r < 65536 THEN gb18030FourByte(gb18030Index(r))
    ELSE gb18030FourByte(r + 189000 - 65536)

\* the GB18030 encoder run over a whole UTF-8 string from position i on
RECURSIVE TranscodeFrom(_, _)
TranscodeFrom(s, i) ==
    IF i > Len(s) THEN <<>>
    ELSE LET d == DecodeRune(s, i)
         IN  gb18030EncodeRune(d.r) \o TranscodeFrom(s, i + d.size)

Transcode(s) == TranscodeFrom(s, 1)


\* a | b on uint8 operands
RECURSIVE BitOr(_, _)
BitOr(a, b) ==
    IF a = 0 THEN b
    ELSE IF b = 0 THEN a
    ELSE (IF a % 2 = 1 \/ b % 2 = 1 THEN 1 ELSE 0) + 2 * BitOr(a \div 2, b \div 2)

\* ------------------------------------------------------------------------
\* The encoder (type Escpos) and its methods
\* ------------------------------------------------------------------------
\* a chunk as the trace records it: its first MaxShown bytes
Shown(data) == IF Len(data) <= MaxShown THEN data ELSE SubSeq(data, 1, MaxShown)

\* the transport calls an encoder method makes
WriteEv(data) == [op |-> "write", data |-> Shown(data), len |-> Len(data)]
ReadEv(n) == [op |-> "read", data |-> <<>>, len |-> n]

Void == [n |-> 0, b |-> 0, err |-> "void"]

\* the fields of a zero-valued Escpos struct
Escpos ==
    [width |-> 0, height |-> 0, underline |-> 0, emphasize |-> 0,
     upsidedown |-> 0, rotate |-> 0, reverse |-> 0, smooth |-> 0]

\* the call frame of a method call on receiver fields e
Frame(e0) == [e |-> e0, io |-> <<>>, ret |-> Void]

\* reset as it would be with the last assignment forgotten
reset_KeepsSmooth(f) ==
    [f EXCEPT !.e.width = 1, !.e.height = 1,
              !.e.underline = 0, !.e.emphasize = 0,
              !.e.upsidedown = 0, !.e.rotate = 0,
              !.e.reverse = 0]

reset(f) ==
    [f EXCEPT !.e.width = 1, !.e.height = 1,
              !.e.underline = 0, !.e.emphasize = 0,
              !.e.upsidedown = 0, !.e.rotate = 0,
              !.e.reverse = 0, !.e.smooth = 0]

New == reset(Frame(Escpos))

\* WriteRaw as it would be without the length check
WriteRaw_NoLengthCheck(f, data) ==
    [f EXCEPT !.io = Append(@, WriteEv(data)),
              !.ret = [n |-> 0, b |-> 0, err |-> "nil"]]

WriteRaw(f, data) ==
    LET g == IF Len(data) > 0 THEN [f EXCEPT !.io = Append(@, WriteEv(data))] ELSE f
    IN  [g EXCEPT !.ret = [n |-> 0, b |-> 0, err |-> "nil"]]

\* rd is what the transport's Read does with the buffer: it delivers rd.n
\* bytes (the byte rd.b) and returns (rd.n, rd.err)
ReadRaw(f, data, rd) ==
    [f EXCEPT !.io = Append(@, ReadEv(Len(data))),
              !.ret = [n |-> rd.n,
                       b |-> IF rd.n >= 1 /\ Len(data) >= 1 THEN rd.b ELSE 0,
                       err |-> rd.err]]

Write(f, data) == WriteRaw(f, Transcode(data))

SetChineseOn(f) == Write(f, <<28, 38>>)

OpenDrawer(f) == WriteRaw(f, <<27, 112, byte(0), byte(10), byte(10)>>)

Init(f) == Write(reset(f), <<27, 64>>)

End(f) == Write(f, <<250>>)

Cut(f) == Write(f, <<29, 86, 65, 48>>)

CutPartial(f) == WriteRaw(f, <<GS, 86, 1>>)

Cash(f) == Write(f, <<27, 112, 0, 10, 255>>)

Linefeed(f) == Write(f, <<10>>)

FormfeedN(f, n) == Write(f, <<27, 100>> \o EncodeRune(n))

Formfeed(f) == FormfeedN(f, 1)

SetFont(f, font) ==
    LET x == CASE font = "A" -> 0
               [] font = "B" -> 1
               [] font = "C" -> 2
               [] OTHER -> 0
    IN  Write(f, <<27, 77>> \o EncodeRune(x))

SendFontSize(f) ==
    Write(f, <<29, 33>> \o EncodeRune(BitOr(byte(f.e.width * 16), f.e.height)))

SetFontStyle(f, style) == Write(f, <<27, 33, byte(style)>>)

SetLetterSpace(f, n) == Write(f, <<27, 32, byte(n)>>)

\* SetFontSize as it would be with the range check off by one
SetFontSize_Upto8(f, width, height) ==
    IF width >= 0 /\ height >= 0 /\ width <= 8 /\ height <= 8
    THEN SendFontSize([f EXCEPT !.e.width = width, !.e.height = height])
    ELSE f

SetFontSize(f, width, height) ==
    IF width >= 0 /\ height >= 0 /\ width < 8 /\ height < 8
    THEN SendFontSize([f EXCEPT !.e.width = width, !.e.height = height])
    ELSE f

SetFontColor(f, color) == WriteRaw(f, <<27, 114, byte(color)>>)

SendUnderline(f) == Write(f, <<27, 45>> \o EncodeRune(f.e.underline))

SendEmphasize(f) == Write(f, <<27, 71>> \o EncodeRune(f.e.emphasize))

SendUpsidedown(f) == Write(f, <<27, 123>> \o EncodeRune(f.e.upsidedown))

SendRotate(f) == Write(f, <<27, 82>> \o EncodeRune(f.e.rotate))

SendReverse(f) == Write(f, <<29, 66>> \o EncodeRune(f.e.reverse))

SendSmooth(f) == Write(f, <<29, 98>> \o EncodeRune(f.e.smooth))

SendMoveX(f, x) == Write(f, <<27, 36, byte(rem(x, 256)), byte(quo(x, 256))>>)

SendMoveY(f, y) == Write(f, <<29, 36, byte(rem(y, 256)), byte(quo(y, 256))>>)

SetUnderline(f, v) == SendUnderline([f EXCEPT !.e.underline = v])

SetEmphasize(f, u) == SendEmphasize([f EXCEPT !.e.emphasize = u])

SetUpsidedown(f, v) == SendUpsidedown([f EXCEPT !.e.upsidedown = v])

SetRotate(f, v) == SendRotate([f EXCEPT !.e.rotate = v])

SetReverse(f, v) == SendReverse([f EXCEPT !.e.reverse = v])

SetSmooth(f, v) == SendSmooth([f EXCEPT !.e.smooth = v])

Pulse(f) == Write(f, <<27, 112, 2>>)

SetAlign(f, align) ==
    LET a == CASE align = "left" -> 0
               [] align = "center" -> 1
               [] align = "right" -> 2
               [] OTHER -> 0
    IN  Write(f, <<27, 97>> \o EncodeRune(a))

SetMarginLeft(f, size) ==
    IF size <= 47
    THEN Write(f, <<29, 76, byte(rem(size, 256)), byte(quo(size, 256))>>)
    ELSE f

SetLang(f, lang) ==
    LET l == CASE lang = "en" -> 0 [] lang = "fr" -> 1 [] lang = "de" -> 2
               [] lang = "uk" -> 3 [] lang = "da" -> 4 [] lang = "sv" -> 5
               [] lang = "it" -> 6 [] lang = "es" -> 7 [] lang = "ja" -> 8
               [] lang = "no" -> 9 [] OTHER -> 0
    IN  Write(f, <<27, 82>> \o EncodeRune(l))

\* FeedAndCut as it would be if any "type" entry asked for a feed
FeedAndCut_AnyType(f, params) ==
    LET g == IF "type" \in DOMAIN params THEN Formfeed(f) ELSE f
    IN  Cut(g)

\* params is a map[string]string: a function from its keys to their values
FeedAndCut(f, params) ==
    LET g == IF "type" \in DOMAIN params /\ params["type"] = "feed"
             THEN Formfeed(f) ELSE f
    IN  Cut(g)

\* barcode is the text's bytes; len(barcode) is its length in bytes
Barcode(f, barcode, format) ==
    LET code == CASE format = 0 -> <<0>> [] format = 1 -> <<1>>
                  [] format = 2 -> <<2>> [] format = 3 -> <<3>>
                  [] format = 4 -> <<4>> [] format = 73 -> <<73>>
                  [] OTHER -> <<>>
        g == SetAlign(reset(f), "center")
        h == IF format > 69
             THEN Write(g, <<29, 107>> \o code \o Itoa(Len(barcode)) \o barcode)
             ELSE IF format < 69
             THEN Write(g, <<29, 107>> \o code \o barcode \o <<0>>)
             ELSE g
    IN  Write(h, barcode)

gSend(f, m, fn, data) ==
    LET l == Len(data) + 2
        g == Write(f, <<27, 40, 76>>)
        h == WriteRaw(g, <<byte(rem(l, 256)), byte(quo(l, 256)), m, fn>>)
    IN  WriteRaw(h, data)

\* ReadStatus as it would be if it ignored the read error
ReadStatus_SwallowsError(f, n, rd) ==
    LET g == WriteRaw(f, <<DLE, EOT, n>>)
        h == ReadRaw(g, <<0>>, rd)
    IN  [h EXCEPT !.ret = [n |-> 0, b |-> h.ret.b, err |-> "nil"]]

ReadStatus(f, n, rd) ==
    LET g == WriteRaw(f, <<DLE, EOT, n>>)
        data == <<0>>
        h == ReadRaw(g, data, rd)
    IN  IF h.ret.err # "nil"
        THEN [h EXCEPT !.ret = [n |-> 0, b |-> 0, err |-> h.ret.err]]
        ELSE [h EXCEPT !.ret = [n |-> 0, b |-> h.ret.b, err |-> "nil"]]

\* ------------------------------------------------------------------------
\* Inputs of the calls
\* ------------------------------------------------------------------------
\* uint8 arguments of the toggle setters
ToggleVals == {0, 1, 127, 128, 233}

\* uint8 arguments of SetFontSize
FontArgs == {0, 1, 3, 7, 8, 16, 255}

ByteArgs == {0, 1, 127, 128, 255}

Fonts == {"A", "B", "C", "D"}

Aligns == {"left", "center", "right", "justify"}

Langs == {"en", "fr", "de", "uk", "da", "sv", "it", "es", "ja", "no", "zh"}

\* map[string]string arguments of FeedAndCut
ParamMaps ==
    { [k \in {"type"} |-> "feed"], [k \in {"type"} |-> "cut"],
      [k \in {"mode"} |-> "feed"], [k \in {"type", "mode"} |-> "feed"],
      [k \in {} |-> ""] }

\* barcode texts: "", "1", "12345", "1234567890", "e-acute" (C3 A9), U+0080 (C2 80)
Texts ==
    { <<>>, <<49>>, <<49, 50, 51, 52, 53>>,
      <<49, 50, 51, 52, 53, 54, 55, 56, 57, 48>>, <<195, 169>>, <<194, 128>> }

Formats == {-1, 0, 1, 2, 3, 4, 5, 68, 69, 70, 73}

\* strings given to Write: "", "A", "\xFA", "e-acute", a lone lead byte, U+1F600
Strings ==
    { <<>>, <<65>>, <<250>>, <<195, 169>>, <<195>>, <<240, 159, 152, 128>> }

\* byte slices given to WriteRaw
Slices == { <<>>, <<0>>, <<250>>, <<195, 169>> }

\* what the transport's Read can do with a 1-byte buffer
ReadOutcomes ==
    { [n |-> 1, b |-> 0, err |-> "nil"], [n |-> 1, b |-> 18, err |-> "nil"],
      [n |-> 1, b |-> 255, err |-> "nil"], [n |-> 0, b |-> 0, err |-> "nil"],
      [n |-> 0, b |-> 0, err |-> "EOF"], [n |-> 1, b |-> 18, err |-> "EOF"],
      [n |-> 0, b |-> 0, err |-> "timeout"] }

StatusArgs == {1, 2, 4, 255}

Zeros(n) == [i \in 1..n |-> 0]

\* payloads of gSend
Payloads == { <<>>, <<7>>, <<128, 255>>, <<27, 64, 250>>, Zeros(253), Zeros(254) }

\* payloads whose length + 2 does not fit 16 bits, and their neighbours
LongPayloads == { Zeros(65533), Zeros(65534), Zeros(65535) }

GraphicsModes == {0, 48, 255}

GraphicsFns == {0, 112, 250}

Distances == {-43459, -255, -1, 0, 1, 255, 256, 43459}

\* ------------------------------------------------------------------------
\* State
\* ------------------------------------------------------------------------
VARIABLES
    e,      \* the fields of the Escpos value
    pre,    \* the fields as they were when the last call began
    io,     \* the transport calls of the last call, in order
    call,   \* the last call: its method and arguments
    ret,    \* what the last call returned
    nops    \* calls made so far

vars == <<e, pre, io, call, ret, nops>>

Start ==
    /\ e = New.e
    /\ pre = New.e
    /\ io = New.io
    /\ call = [name |-> "New", args |-> <<>>]
    /\ ret = Void
    /\ nops = 0

\* one call of a method: g is the frame the method ends with
Call(name, args, g, r) ==
    /\ nops < MaxOps
    /\ e' = g.e
    /\ pre' = e
    /\ io' = g.io
    /\ call' = [name |-> name, args |-> args]
    /\ ret' = r
    /\ nops' = nops + 1

DoWriteRaw ==
    \E data \in Slices :
        LET g == WriteRaw(Frame(e), data) IN Call("WriteRaw", <<data>>, g, g.ret)

DoReadRaw ==
    \E rd \in ReadOutcomes :
        LET g == ReadRaw(Frame(e), <<0>>, rd) IN Call("ReadRaw", <<rd>>, g, g.ret)

DoWrite ==
    \E data \in Strings :
        LET g == Write(Frame(e), data) IN Call("Write", <<data>>, g, g.ret)

DoSetChineseOn == Call("SetChineseOn", <<>>, SetChineseOn(Frame(e)), Void)

DoOpenDrawer == Call("OpenDrawer", <<>>, OpenDrawer(Frame(e)), Void)

DoInit == Call("Init", <<>>, Init(Frame(e)), Void)

DoEnd == Call("End", <<>>, End(Frame(e)), Void)

DoCut == Call("Cut", <<>>, Cut(Frame(e)), Void)

DoCutPartial == Call("CutPartial", <<>>, CutPartial(Frame(e)), Void)

DoCash == Call("Cash", <<>>, Cash(Frame(e)), Void)

DoLinefeed == Call("Linefeed", <<>>, Linefeed(Frame(e)), Void)

DoFormfeedN ==
    \E n \in {0, 3, 200, -1} : Call("FormfeedN", <<n>>, FormfeedN(Frame(e), n), Void)

DoFormfeed == Call("Formfeed", <<>>, Formfeed(Frame(e)), Void)

DoSetFont ==
    \E font \in Fonts : Call("SetFont", <<font>>, SetFont(Frame(e), font), Void)

DoSendFontSize == Call("SendFontSize", <<>>, SendFontSize(Frame(e)), Void)

DoSetFontStyle ==
    \E style \in ByteArgs :
        Call("SetFontStyle", <<style>>, SetFontStyle(Frame(e), style), Void)

DoSetLetterSpace ==
    \E n \in ByteArgs :
        Call("SetLetterSpace", <<n>>, SetLetterSpace(Frame(e), n), Void)

DoSetFontSize ==
    \E width \in FontArgs, height \in FontArgs :
        Call("SetFontSize", <<width, height>>,
             SetFontSize(Frame(e), width, height), Void)

DoSetFontColor ==
    \E color \in ByteArgs :
        Call("SetFontColor", <<color>>, SetFontColor(Frame(e), color), Void)

DoSendUnderline == Call("SendUnderline", <<>>, SendUnderline(Frame(e)), Void)

DoSendEmphasize == Call("SendEmphasize", <<>>, SendEmphasize(Frame(e)), Void)

DoSendUpsidedown == Call("SendUpsidedown", <<>>, SendUpsidedown(Frame(e)), Void)

DoSendRotate == Call("SendRotate", <<>>, SendRotate(Frame(e)), Void)

DoSendReverse == Call("SendReverse", <<>>, SendReverse(Frame(e)), Void)

DoSendSmooth == Call("SendSmooth", <<>>, SendSmooth(Frame(e)), Void)

DoSendMoveX ==
    \E x \in Distances : Call("SendMoveX", <<x>>, SendMoveX(Frame(e), x), Void)

DoSendMoveY ==
    \E y \in Distances : Call("SendMoveY", <<y>>, SendMoveY(Frame(e), y), Void)

DoSetUnderline ==
    \E v \in ToggleVals : Call("SetUnderline", <<v>>, SetUnderline(Frame(e), v), Void)

DoSetEmphasize ==
    \E u \in ToggleVals : Call("SetEmphasize", <<u>>, SetEmphasize(Frame(e), u), Void)

DoSetUpsidedown ==
    \E v \in ToggleVals :
        Call("SetUpsidedown", <<v>>, SetUpsidedown(Frame(e), v), Void)

DoSetRotate ==
    \E v \in ToggleVals : Call("SetRotate", <<v>>, SetRotate(Frame(e), v), Void)

DoSetReverse ==
    \E v \in ToggleVals : Call("SetReverse", <<v>>, SetReverse(Frame(e), v), Void)

DoSetSmooth ==
    \E v \in ToggleVals : Call("SetSmooth", <<v>>, SetSmooth(Frame(e), v), Void)

DoPulse == Call("Pulse", <<>>, Pulse(Frame(e)), Void)

DoSetAlign ==
    \E align \in Aligns : Call("SetAlign", <<align>>, SetAlign(Frame(e), align), Void)

DoSetMarginLeft ==
    \E size \in {0, 47, 48, 65535} :
        Call("SetMarginLeft", <<size>>, SetMarginLeft(Frame(e), size), Void)

DoSetLang ==
    \E lang \in Langs : Call("SetLang", <<lang>>, SetLang(Frame(e), lang), Void)

DoFeedAndCut ==
    \E params \in ParamMaps :
        Call("FeedAndCut", <<params>>, FeedAndCut(Frame(e), params), Void)

DoBarcode ==
    \E barcode \in Texts, format \in Formats :
        Call("Barcode", <<barcode, format>>,
             Barcode(Frame(e), barcode, format), Void)

DoGSend(payloads) ==
    \E m \in GraphicsModes, fn \in GraphicsFns, data \in payloads :
        Call("gSend", <<m, fn, Shown(data), Len(data)>>,
             gSend(Frame(e), m, fn, data), Void)

DoReadStatus ==
    \E n \in StatusArgs, rd \in ReadOutcomes :
        LET g == ReadStatus(Frame(e), n, rd)
        IN  Call("ReadStatus", <<n, rd>>, g, g.ret)

Next ==
    \/ DoWriteRaw \/ DoReadRaw \/ DoWrite
    \/ DoSetChineseOn \/ DoOpenDrawer \/ DoInit \/ DoEnd
    \/ DoCut \/ DoCutPartial \/ DoCash \/ DoLinefeed
    \/ DoFormfeedN \/ DoFormfeed \/ DoSetFont \/ DoSendFontSize
    \/ DoSetFontStyle \/ DoSetLetterSpace \/ DoSetFontSize \/ DoSetFontColor
    \/ DoSendUnderline \/ DoSendEmphasize \/ DoSendUpsidedown \/ DoSendRotate
    \/ DoSendReverse \/ DoSendSmooth \/ DoSendMoveX \/ DoSendMoveY
    \/ DoSetUnderline \/ DoSetEmphasize \/ DoSetUpsidedown \/ DoSetRotate
    \/ DoSetReverse \/ DoSetSmooth \/ DoPulse \/ DoSetAlign
    \/ DoSetMarginLeft \/ DoSetLang \/ DoFeedAndCut \/ DoBarcode
    \/ DoGSend(Payloads) \/ DoReadStatus

Spec == Start /\ [][Next]_vars

\* gSend alone, over payloads up to and beyond the 16-bit length field
NextGraphics == DoGSend(Payloads \cup LongPayloads)

SpecGraphics == Start /\ [][NextGraphics]_vars

\* ------------------------------------------------------------------------
\* Properties
\* ------------------------------------------------------------------------
WriteEvents == SelectSeq(io, LAMBDA ev : ev.op = "write")

\* the byte chunks the last call wrote to the transport, in order
Sent == [i \in 1..Len(WriteEvents) |-> WriteEvents[i].data]

NumWrites == Len(WriteEvents)

NumReads == Len(SelectSeq(io, LAMBDA ev : ev.op = "read"))

Defaults ==
    [width |-> 1, height |-> 1, underline |-> 0, emphasize |-> 0,
     upsidedown |-> 0, rotate |-> 0, reverse |-> 0, smooth |-> 0]

StyleFields == DOMAIN Defaults

\* the two bytes that introduce the command of each style field
CommandPrefix ==
    [width |-> <<29, 33>>, height |-> <<29, 33>>, underline |-> <<27, 45>>,
     emphasize |-> <<27, 71>>, upsidedown |-> <<27, 123>>, rotate |-> <<27, 82>>,
     reverse |-> <<29, 66>>, smooth |-> <<29, 98>>]

SetterField ==
    [SetUnderline |-> "underline", SetEmphasize |-> "emphasize",
     SetUpsidedown |-> "upsidedown", SetRotate |-> "rotate",
     SetReverse |-> "reverse", SetSmooth |-> "smooth"]

\* a chunk is the command for field k, or the hardware initialize ESC @
TransmitsFor(k, chunk) ==
    \/ chunk = <<27, 64>>
    \/ Len(chunk) >= 3 /\ SubSeq(chunk, 1, 2) = CommandPrefix[k]

\* C1: the in-memory style fields mirror what the printer was told; in
\* particular no call changes a style field without transmitting the command
\* for it (or the initialize command) in the same call.
C1_NoSilentStateChange ==
    \A k \in StyleFields :
        e[k] # pre[k] => \E i \in 1..Len(Sent) : TransmitsFor(k, Sent[i])

\* C2: right after New and right after every Init, width = height = 1 and all
\* toggles are 0, and Init has written exactly ESC @, whatever the state before.
C2_FreshAfterNewAndInit ==
    /\ call.name \in {"New", "Init"} => e = Defaults
    /\ call.name = "New" => io = <<>>
    /\ call.name = "Init" => io = <<WriteEv(<<27, 64>>)>>

\* Init called on an encoder whose style had been changed
C2_Witness ==
    /\ call.name = "Init"
    /\ pre.underline = 128 /\ e.underline = 0
    /\ Sent = << <<27, 64>> >>

\* C3: SetFontSize with both arguments in 0..7 stores them and writes GS !
\* (width<<4 | height) once; with an argument >= 8 it writes nothing and
\* leaves every field as it was.
C3_SetFontSize ==
    call.name = "SetFontSize" =>
        LET width == call.args[1]
            height == call.args[2]
        IN  IF width \in 0..7 /\ height \in 0..7
            THEN /\ e = [pre EXCEPT !.width = width, !.height = height]
                 /\ Sent = << <<29, 33, 16 * width + height>> >>
                 /\ NumReads = 0
            ELSE /\ e = pre
                 /\ io = <<>>

\* an out-of-range call that left an earlier (7, 7) in place
C3_Witness ==
    /\ call.name = "SetFontSize"
    /\ call.args = <<255, 0>>
    /\ pre.width = 7 /\ pre.height = 7
    /\ e.width = 7 /\ e.height = 7
    /\ io = <<>>

\* C3: an accepted call
C3_WitnessAccepted ==
    /\ call.name = "SetFontSize"
    /\ call.args = <<7, 1>>
    /\ Sent = << <<29, 33, 113>> >>

\* C4: a toggle setter called with v stores v and writes its two-byte prefix
\* followed by the single byte v.
C4_ToggleByteVerbatim ==
    call.name \in DOMAIN SetterField =>
        LET k == SetterField[call.name]
            v == call.args[1]
        IN  /\ e[k] = v
            /\ Sent = << CommandPrefix[k] \o <<v>> >>

\* the barcode type byte of each format that has one
BarcodeCode ==
    [format \in {0, 1, 2, 3, 4, 73} |-> IF format = 73 THEN <<73>> ELSE <<format>>]

NonEmpty(chunks) == SelectSeq(chunks, LAMBDA c : c # <<>>)

\* C5: Barcode writes ESC a 1; then, for format > 69, GS k <code> <decimal
\* length of the text> <text>, for format < 69, GS k <code> <text> NUL, and for
\* format 69 no frame; then the raw text once more.  <code> is the table's
\* byte, or empty for a format outside the table.
C5_BarcodeFrames ==
    call.name = "Barcode" =>
        LET text == call.args[1]
            format == call.args[2]
            code == IF format \in DOMAIN BarcodeCode THEN BarcodeCode[format] ELSE <<>>
            frame == IF format > 69
                     THEN <<29, 107>> \o code \o Itoa(Len(text)) \o text
                     ELSE IF format < 69
                     THEN <<29, 107>> \o code \o text \o <<0>>
                     ELSE <<>>
        IN  /\ Sent = NonEmpty(<< <<27, 97, 1>>, frame, text >>)
            /\ NumReads = 0
            /\ text = <<49, 50, 51, 52, 53>> /\ format = 3 =>
                   Sent = << <<27, 97, 1>>, <<29, 107, 3, 49, 50, 51, 52, 53, 0>>,
                             <<49, 50, 51, 52, 53>> >>
            /\ text = <<49, 50, 51, 52, 53>> /\ format = 73 =>
                   Sent = << <<27, 97, 1>>, <<29, 107, 73, 53, 49, 50, 51, 52, 53>>,
                             <<49, 50, 51, 52, 53>> >>
            /\ text = <<49, 50, 51, 52, 53>> /\ format = 69 =>
                   Sent = << <<27, 97, 1>>, <<49, 50, 51, 52, 53>> >>

\* C6: ReadStatus writes DLE EOT n, then reads once into a 1-byte buffer; a
\* read error is returned with byte 0, otherwise the byte read is returned
\* with a nil error; no style field changes.
C6_ReadStatus ==
    call.name = "ReadStatus" =>
        LET n == call.args[1]
            rd == call.args[2]
        IN  /\ io = << WriteEv(<<16, 4, n>>), ReadEv(1) >>
            /\ rd.err # "nil" => ret.b = 0 /\ ret.err = rd.err
            /\ rd.err = "nil" => ret.err = "nil"
            /\ rd.err = "nil" /\ rd.n = 1 => ret.b = rd.b
            /\ e = pre

\* a failed read that had delivered a byte: the error comes back with byte 0
C6_Witness ==
    /\ call.name = "ReadStatus"
    /\ call.args[2] = [n |-> 1, b |-> 18, err |-> "EOF"]
    /\ ret.err = "EOF" /\ ret.b = 0
    /\ NumWrites = 1 /\ NumReads = 1

\* C6: a successful status read
C6_WitnessRead ==
    /\ call.name = "ReadStatus"
    /\ ret.err = "nil" /\ ret.b = 255
    /\ pre.width = 7

\* C7 as stated: no call makes more than one transport write.
C7_AtMostOneWrite == NumWrites <= 1

\* the calls that write nothing
WritesNothing ==
    \/ call.name \in {"New", "ReadRaw"}
    \/ call.name = "SetFontSize" /\ (call.args[1] >= 8 \/ call.args[2] >= 8)
    \/ call.name = "SetMarginLeft" /\ call.args[1] > 47
    \/ call.name \in {"WriteRaw", "Write"} /\ call.args[1] = <<>>

\* C7 (amended): every call other than Barcode, FeedAndCut and gSend makes
\* exactly one transport write, or none when it is a no-op; FeedAndCut makes
\* one write, or two when it feeds; gSend makes two, and a third for a
\* non-empty payload; Barcode makes one for the alignment, one more for the
\* frame unless the format is 69, and one more for a non-empty text.
C7_WritesPerCall ==
    /\ call.name \notin {"Barcode", "FeedAndCut", "gSend"} =>
           NumWrites = IF WritesNothing THEN 0 ELSE 1
    /\ call.name = "FeedAndCut" =>
           NumWrites = IF /\ "type" \in DOMAIN call.args[1]
                          /\ call.args[1]["type"] = "feed"
                       THEN 2 ELSE 1
    /\ call.name = "gSend" =>
           NumWrites = IF call.args[4] = 0 THEN 2 ELSE 3
    /\ call.name = "Barcode" =>
           NumWrites = 1 + (IF call.args[2] = 69 THEN 0 ELSE 1)
                         + (IF call.args[1] = <<>> THEN 0 ELSE 1)
    /\ NumReads = IF call.name \in {"ReadRaw", "ReadStatus"} THEN 1 ELSE 0

\* a graphics frame sent in three writes
C7_Witness ==
    /\ call.name = "gSend"
    /\ call.args[3] = <<7>>
    /\ NumWrites = 3

\* C8: each fixed command reaches the transport as its literal bytes.
C8_FixedCommandsBitExact ==
    /\ call.name = "Init" => Sent = << <<27, 64>> >>
    /\ call.name = "End" => Sent = << <<250>> >>
    /\ call.name = "Cut" => Sent = << <<29, 86, 65, 48>> >>
    /\ call.name = "CutPartial" => Sent = << <<29, 86, 1>> >>
    /\ call.name = "OpenDrawer" => Sent = << <<27, 112, 0, 10, 10>> >>
    /\ call.name = "Cash" => Sent = << <<27, 112, 0, 10, 255>> >>

\* C9: FeedAndCut writes only GS V A 0 unless params["type"] is "feed", in
\* which case it writes ESC d 1 first; the cut comes last and no style field
\* changes.
C9_FeedAndCut ==
    call.name = "FeedAndCut" =>
        LET params == call.args[1]
            feed == "type" \in DOMAIN params /\ params["type"] = "feed"
        IN  /\ Sent = IF feed
                      THEN << <<27, 100, 1>>, <<29, 86, 65, 48>> >>
                      ELSE << <<29, 86, 65, 48>> >>
            /\ Sent[Len(Sent)] = <<29, 86, 65, 48>>
            /\ NumReads = 0
            /\ e = pre

\* feed then cut, on an encoder with a non-default style
C9_Witness ==
    /\ call.name = "FeedAndCut"
    /\ call.args[1] = [k \in {"type"} |-> "feed"]
    /\ NumWrites = 2
    /\ e.width = 7

\* C9: a "type" entry other than "feed" only cuts
C9_WitnessCutOnly ==
    /\ call.name = "FeedAndCut"
    /\ call.args[1] = [k \in {"type"} |-> "cut"]
    /\ NumWrites = 1

\* C10: gSend writes ESC ( L, then [(L+2) mod 256, (L+2) div 256, m, fn], then
\* the payload unchanged and in full; the header is four bytes and its two
\* length bytes decode back to L+2.
C10_GraphicsFrame ==
    call.name = "gSend" =>
        LET m == call.args[1]
            fn == call.args[2]
            data == call.args[3]
            L == call.args[4]
        IN  /\ Sent = NonEmpty(<< <<27, 40, 76>>,
                                  <<(L + 2) % 256, (L + 2) \div 256, m, fn>>,
                                  data >>)
            /\ L > 0 => WriteEvents[3].len = L
            /\ \A i \in 1..4 : Sent[2][i] \in 0..255
            /\ Sent[2][1] + 256 * Sent[2][2] = L + 2

====
